---- MODULE Spec2Model ----
(***************************************************************************)
(* Model of beater/server.go of apm-server: the muxer's handler chain      *)
(* logHandler -> authHandler -> appHandler (processRequest, sendStatus),   *)
(* the /healthcheck handler, the three monitoring counters and stop.       *)
(*                                                                         *)
(* Strings that the code inspects byte by byte (the secret token and the   *)
(* Authorization header) are sequences of one-character strings.  Error    *)
(* messages are sequences of message pieces, so that wrapping a message    *)
(* with a prefix is visible.                                               *)
(***************************************************************************)
EXTENDS Integers, Sequences, FiniteSets, TLC

VARIABLES
    secretToken,     \* config.SecretToken
    requestCounter,  \* monitoring counter "requests.counter"
    responseValid,   \* monitoring counter "response.valid"
    responseErrors,  \* monitoring counter "response.errors"
    reqs,            \* the requests: position in the handler chain, method, headers
    last,            \* what the most recent handler invocation did and answered
    server,          \* the http.Server: "listening", "shuttingDown" or "closed"
    stopPc,          \* position of stop: "idle", "Shutdown", "Close", "returned"
    stopCalls,       \* the calls stop has made on the server, in order
    shutdownErr,     \* what server.Shutdown returned to stop
    closeErr,        \* what server.Close returned to stop
    logged,          \* what stop has passed to logp.Err, in order
    probe            \* a single call of a function on given arguments, and its result

vars == <<secretToken, requestCounter, responseValid, responseErrors, reqs, last,
          server, stopPc, stopCalls, shutdownErr, closeErr, logged, probe>>

(***************************************************************************)
(* Bounds of the model.                                                    *)
(***************************************************************************)
MaxRequests == 2        \* requests the clients send in one run
MaxUnzippedSize == 2    \* config.MaxUnzippedSize, the cap on the decoded body
MaxTokenLen == 3        \* longest secret token / credential tried by AuthSpec

Requests == 1..MaxRequests

(***************************************************************************)
(* Strings.                                                                *)
(***************************************************************************)
Bearer == <<"B", "e", "a", "r", "e", "r">>
Basic == <<"B", "a", "s", "i", "c">>
SP == " "

RECURSIVE StringsUpTo(_, _)
StringsUpTo(alphabet, n) ==
    IF n = 0 THEN {<<>>}
    ELSE LET shorter == StringsUpTo(alphabet, n - 1)
         IN shorter \cup {Append(s, c) : s \in shorter, c \in alphabet}

\* strings.Split(s, " "): the pieces between the separators; a string without
\* a separator (the empty string too) is one piece.
RECURSIVE SplitFrom(_, _, _)
SplitFrom(s, i, cur) ==
    IF i > Len(s) THEN <<cur>>
    ELSE IF s[i] = SP THEN <<cur>> \o SplitFrom(s, i + 1, <<>>)
    ELSE SplitFrom(s, i + 1, Append(cur, s[i]))

Split(s) == SplitFrom(s, 1, <<>>)

\* subtle.ConstantTimeCompare: 1 iff same length and the same byte everywhere.
ConstantTimeCompare(x, y) ==
    IF Len(x) # Len(y) THEN 0
    ELSE IF \A i \in 1..Len(x) : x[i] = y[i] THEN 1 ELSE 0

\* a check that tolerates trailing parts (len(parts) < 2)
isAuthorizedTrailing(header, secret) ==
    IF secret = <<>> THEN TRUE
    ELSE LET parts == Split(header)
         IN IF Len(parts) < 2 \/ parts[1] # Bearer THEN FALSE
            ELSE ConstantTimeCompare(parts[2], secret) = 1

isAuthorized(header, secret) ==
    IF secret = <<>> THEN TRUE
    ELSE LET parts == Split(header)
         IN IF Len(parts) # 2 \/ parts[1] # Bearer THEN FALSE
            ELSE ConstantTimeCompare(parts[2], secret) = 1


(***************************************************************************)
(* Errors: Go's nil error, or an error with a message.                     *)
(***************************************************************************)
NilErr == [nil |-> TRUE, msg |-> <<>>]
Err(m) == [nil |-> FALSE, msg |-> m]

\* a 401 sent without its error (sendStatus(w, r, 401, nil))
errInvalidTokenNil == NilErr

errInvalidToken == Err(<<"invalid token">>)
errPOSTRequestOnly == Err(<<"only POST requests are supported">>)

(***************************************************************************)
(* What clients send and what the collaborators answer.                    *)
(***************************************************************************)
ProcessorPaths == {"/v1/errors"}
HealthcheckPath == "/healthcheck"
Paths == ProcessorPaths \cup {HealthcheckPath}
Methods == {"POST", "GET"}
ContentTypes == {"application/json", "text/plain"}
ContentEncodings == {"", "gzip", "deflate"}
\* Accept headers, as the pieces they are made of
AcceptHeaders == {<<>>, <<"application/json">>, <<"text/html", ",", "*/*">>,
                  <<"text/plain">>}

\* the decoded content of a body: byte i is i, so a prefix is recognisable
Bodies == {[i \in 1..n |-> i] : n \in 0..(MaxUnzippedSize + 1)}

\* the stream under the size limit: its decoded content, and failAt, the
\* number of bytes it delivers before a Read call returns an I/O error
\* (-1: it never does)
Streams == UNION {{[body |-> b, failAt |-> f] : f \in -1..Len(b)} : b \in Bodies}

ValidateAnswers == {NilErr, Err(<<"doesn't validate with ", "\"", "error#", "\"">>)}
TransformAnswers == {[list |-> <<>>, err |-> Err(<<"transform error">>)],
                     [list |-> <<>>, err |-> NilErr],
                     [list |-> <<"event">>, err |-> NilErr]}
ReportAnswers == {NilErr, Err(<<"queue is full">>)}

\* the secret tokens and Authorization headers of the server runs: no
\* secret or "s", no header or "Bearer s" (AuthSpec tries the other headers)
Secrets == {<<>>, <<"s">>}
Authorizations == {<<>>, Bearer \o <<SP, "s">>}

Call(op, arg, out, err) == [op |-> op, arg |-> arg, out |-> out, err |-> err]

(***************************************************************************)
(* decodeData: the reader it returns ("none" for nil) and its error.       *)
(* headerErr says that the body does not start with a valid gzip/zlib      *)
(* header, which makes NewReader fail.                                     *)
(***************************************************************************)
decodeData(r) ==
    IF r.contentType # "application/json"
    THEN [reader |-> "none", err |-> Err(<<"invalid content type: ", r.contentType>>)]
    ELSE IF ~r.hasBody
    THEN [reader |-> "none", err |-> Err(<<"No content supplied">>)]
    ELSE IF r.contentEncoding = "deflate"
    THEN IF r.headerErr
         THEN [reader |-> "none", err |-> Err(<<"zlib: invalid header">>)]
         ELSE [reader |-> "zlib", err |-> NilErr]
    ELSE IF r.contentEncoding = "gzip"
    THEN IF r.headerErr
         THEN [reader |-> "none", err |-> Err(<<"gzip: invalid header">>)]
         ELSE [reader |-> "gzip", err |-> NilErr]
    ELSE [reader |-> "body", err |-> NilErr]

Min(a, b) == IF a < b THEN a ELSE b

\* a read whose error is dropped (buf, _ := ioutil.ReadAll(...))
ReadAllUnchecked(stream, maxSize) ==
    [buf |-> SubSeq(stream.body, 1,
                    Min(IF stream.failAt >= 0 THEN stream.failAt ELSE Len(stream.body),
                        Min(Len(stream.body), maxSize))),
     err |-> NilErr]

\* a read without the limit (ioutil.ReadAll(reader))
ReadAllUnlimited(stream, maxSize) ==
    IF stream.failAt >= 0 /\ stream.failAt <= Len(stream.body)
    THEN [buf |-> <<>>, err |-> Err(<<"unexpected EOF">>)]
    ELSE [buf |-> stream.body, err |-> NilErr]

\* ioutil.ReadAll(io.LimitReader(reader, maxSize)): the limited reader
\* reports EOF once it has handed out maxSize bytes, without reading on; an
\* I/O error of the stream is seen only by a Read issued before that.
ReadAllLimited(stream, maxSize) ==
    IF stream.failAt >= 0 /\ stream.failAt <= Len(stream.body) /\ stream.failAt < maxSize
    THEN [buf |-> <<>>, err |-> Err(<<"unexpected EOF">>)]
    ELSE [buf |-> SubSeq(stream.body, 1, Min(Len(stream.body), maxSize)), err |-> NilErr]

(***************************************************************************)
(* processRequest(r, p, maxSize, report): the status, the error and the    *)
(* calls it made, in order.  p and report are the answers the Processor    *)
(* and the reporter give to this request.                                  *)
(***************************************************************************)
\* a pipeline that never closes the reader
deferredCloseMissing(reader) == <<>>

\* defer reader.Close(): the call processRequest makes on the reader that
\* decodeData returned, on its way out
deferredClose(reader) == <<Call("Close", <<reader>>, <<>>, NilErr)>>

\* a pipeline that wraps the Processor's validation error like the others
validateFailureWrapped(err, calls) ==
    [code |-> 400, err |-> Err(<<"Validation error: ">> \o err.msg), calls |-> calls]

\* return 400, err: what processRequest returns when Validate answered err
validateFailure(err, calls) == [code |-> 400, err |-> err, calls |-> calls]

\* a pipeline that drops Transform's error and reports what it got
transformAndReportUnchecked(calls, close, buf, p, report) ==
    LET c4 == calls \o <<Call("Transform", buf, p.transform.list, p.transform.err)>>
        c5 == c4 \o <<Call("report", p.transform.list, <<>>, report)>>
    IN IF ~report.nil
       THEN [code |-> 503, err |-> report, calls |-> c5 \o close]
       ELSE [code |-> 202, err |-> NilErr, calls |-> c5 \o close]

\* processRequest after Validate accepted buf: Transform, then report
transformAndReport(calls, close, buf, p, report) ==
    LET c4 == calls \o <<Call("Transform", buf, p.transform.list, p.transform.err)>>
    IN IF ~p.transform.err.nil
       THEN [code |-> 400, err |-> p.transform.err, calls |-> c4 \o close]
       ELSE
    LET c5 == c4 \o <<Call("report", p.transform.list, <<>>, report)>>
    IN IF ~report.nil
       THEN [code |-> 503, err |-> report, calls |-> c5 \o close]
       ELSE [code |-> 202, err |-> NilErr, calls |-> c5 \o close]

\* processRequest after its method check
decodeAndProcess(r, p, maxSize, report) ==
    LET dec == decodeData(r)
        c1 == <<Call("decodeData", <<>>, <<dec.reader>>, dec.err)>>
    IN IF ~dec.err.nil
       THEN [code |-> 400, err |-> Err(<<"Decoding error: ">> \o dec.err.msg), calls |-> c1]
       ELSE
    LET close == deferredClose(dec.reader)
        rd == ReadAllLimited(r.stream, maxSize)
        c2 == c1 \o <<Call("ReadAll", r.stream.body, rd.buf, rd.err)>>
    IN IF ~rd.err.nil
       THEN [code |-> 500, err |-> Err(<<"Data read error: ">> \o rd.err.msg),
             calls |-> c2 \o close]
       ELSE
    LET c3 == c2 \o <<Call("Validate", rd.buf, <<>>, p.validate)>>
    IN IF ~p.validate.nil
       THEN validateFailure(p.validate, c3 \o close)
       ELSE transformAndReport(c3, close, rd.buf, p, report)

\* a pipeline without the method check
processRequestAnyMethod(r, p, maxSize, report) ==
    decodeAndProcess(r, p, maxSize, report)

processRequest(r, p, maxSize, report) ==
    IF r.method # "POST"
    THEN [code |-> 405, err |-> errPOSTRequestOnly, calls |-> <<>>]
    ELSE decodeAndProcess(r, p, maxSize, report)

(***************************************************************************)
(* sendStatus: the response it writes.                                     *)
(***************************************************************************)
Contains(h, sub) ==
    \E i \in 1..(Len(h) - Len(sub) + 1) : SubSeq(h, i, i + Len(sub) - 1) = sub

\* an acceptsJSON that looks for "application/json" only
acceptsJSONOnly(accept) == Contains(accept, <<"application/json">>)

acceptsJSON(accept) ==
    Contains(accept, <<"*/*">>) \/ Contains(accept, <<"application/json">>)

\* the bytes of a response body, as a sequence of pieces; none written
NoBody == <<>>

\* a string inside a JSON text, as json.Marshal writes it: a quote and a
\* backslash get a backslash, "<", ">" and "&" become \u escapes
jsonEscape(msg) ==
    [k \in 1..Len(msg) |->
        CASE msg[k] = "\"" -> "\\\""
          [] msg[k] = "\\" -> "\\\\"
          [] msg[k] = "<" -> "\\u003c"
          [] msg[k] = ">" -> "\\u003e"
          [] msg[k] = "&" -> "\\u0026"
          [] OTHER -> msg[k]]

\* sendJSON(w, {"error": msg}): the text json.Marshal makes of the map
sendJSON(msg) == <<"{", "\"error\"", ":", "\"">> \o jsonEscape(msg) \o <<"\"", "}">>

\* sendPlain(w, msg): the bytes of msg
sendPlain(msg) == msg

sendStatus(accept, code, err) ==
    [status |-> code,
     contentType |-> IF acceptsJSON(accept) THEN "application/json"
                     ELSE "text/plain; charset=utf-8",
     body |-> IF err.nil THEN NoBody
              ELSE IF acceptsJSON(accept) THEN sendJSON(err.msg) ELSE sendPlain(err.msg)]


(***************************************************************************)
(* newMuxer: the handlers a request to a path runs through, outermost      *)
(* first.  The /healthcheck handler is one function; its second position   *)
(* is the point after requestCounter.Inc().                                *)
(***************************************************************************)
\* a muxer that wraps every route, /healthcheck too, in authHandler
newMuxerAuthEverywhere(path) ==
    IF path \in ProcessorPaths
    THEN <<"logHandler", "authHandler", "appHandler">>
    ELSE <<"authHandler", "healthcheck", "healthcheckRespond">>

newMuxer(path) ==
    IF path \in ProcessorPaths
    THEN <<"logHandler", "authHandler", "appHandler">>
    ELSE <<"healthcheck", "healthcheckRespond">>

NewRequest == [st |-> "new", path |-> "", method |-> "", authorization |-> <<>>,
               todo |-> <<>>]
DoneRequest == [st |-> "done", path |-> "", method |-> "", authorization |-> <<>>,
                todo |-> <<>>]

NoLast == [handler |-> "none", path |-> "", method |-> "", authorization |-> <<>>,
           code |-> 0, err |-> NilErr, ops |-> <<>>]
NoProbe == [fn |-> "none"]

Active(i) == reqs[i].st = "active"
At(i, h) == Active(i) /\ reqs[i].todo # <<>> /\ Head(reqs[i].todo) = h
InFlight == {i \in Requests : Active(i)}

\* the names of the calls of a processRequest result, in order
Ops(calls) == [k \in 1..Len(calls) |-> calls[k].op]

\* everything a request and the collaborators can present to processRequest
PipelineInputs ==
    [r : [method : Methods, contentType : ContentTypes, hasBody : BOOLEAN,
          contentEncoding : ContentEncodings, headerErr : BOOLEAN, stream : Streams],
     p : [validate : ValidateAnswers, transform : TransformAnswers],
     report : ReportAnswers]

\* a call without its buffers: its name, the error it returned, and the event
\* list that Transform returned or report was given
Step(call) ==
    [op |-> call.op, err |-> call.err,
     events |-> IF call.op = "Transform" THEN call.out
                ELSE IF call.op = "report" THEN call.arg ELSE <<>>]

Steps(calls) == [k \in 1..Len(calls) |-> Step(calls[k])]

\* the status, the error and the calls, without their buffers, of a
\* processRequest result
Outcome(res) == [code |-> res.code, err |-> res.err, ops |-> Steps(res.calls)]

\* what processRequest can do and return for a request of a given method
OutcomesOf ==
    [m \in Methods |->
        {Outcome(processRequest(in.r, in.p, MaxUnzippedSize, in.report)) :
            in \in {x \in PipelineInputs : x.r.method = m}}]

\* a server that has just been built: nothing counted, served or stopped
Fresh ==
    /\ requestCounter = 0
    /\ responseValid = 0
    /\ responseErrors = 0
    /\ reqs = [i \in Requests |-> NewRequest]
    /\ last = NoLast
    /\ server = "listening"
    /\ stopPc = "idle"
    /\ stopCalls = <<>>
    /\ shutdownErr = NilErr
    /\ closeErr = NilErr
    /\ logged = <<>>

Init ==
    /\ secretToken \in Secrets
    /\ Fresh
    /\ probe = NoProbe

stopVars == <<server, stopPc, stopCalls, shutdownErr, closeErr, logged>>
reqVars == <<secretToken, requestCounter, responseValid, responseErrors, reqs, last>>

\* the mux hands an incoming request to the handler registered for its path
Serve(i) ==
    /\ server = "listening"
    /\ reqs[i].st = "new"
    /\ \A j \in Requests : j < i => reqs[j].st # "new"
    /\ \E path \in Paths, method \in Methods, authorization \in Authorizations :
          reqs' = [reqs EXCEPT ![i] = [st |-> "active", path |-> path, method |-> method,
                                       authorization |-> authorization,
                                       todo |-> newMuxer(path)]]
    /\ UNCHANGED <<secretToken, requestCounter, responseValid, responseErrors, last>>
    /\ UNCHANGED <<stopVars, probe>>

\* a logHandler that forgets requestCounter.Inc()
logHandlerNoInc(i) ==
    /\ At(i, "logHandler")
    /\ reqs' = [reqs EXCEPT ![i].todo = Tail(@)]
    /\ UNCHANGED <<secretToken, requestCounter, responseValid, responseErrors, last>>
    /\ UNCHANGED <<stopVars, probe>>

logHandler(i) ==
    /\ At(i, "logHandler")
    /\ requestCounter' = requestCounter + 1
    /\ reqs' = [reqs EXCEPT ![i].todo = Tail(@)]
    /\ UNCHANGED <<secretToken, responseValid, responseErrors, last>>
    /\ UNCHANGED <<stopVars, probe>>

\* a sendStatus whose error count is a stale write: it stores one, whatever
\* the other requests have added meanwhile
RespondStaleErrors(i, h, res) ==
    /\ responseValid' = IF res.err.nil THEN responseValid + 1 ELSE responseValid
    /\ responseErrors' = IF res.err.nil THEN responseErrors ELSE 1
    /\ last' = [handler |-> h, path |-> reqs[i].path, method |-> reqs[i].method,
                authorization |-> reqs[i].authorization,
                code |-> res.code, err |-> res.err, ops |-> res.ops]
    /\ reqs' = [reqs EXCEPT ![i] = DoneRequest]

\* sendStatus(w, r, code, err) on the shared state, called by handler h,
\* which returns after it
Respond(i, h, res) ==
    /\ responseValid' = IF res.err.nil THEN responseValid + 1 ELSE responseValid
    /\ responseErrors' = IF res.err.nil THEN responseErrors ELSE responseErrors + 1
    /\ last' = [handler |-> h, path |-> reqs[i].path, method |-> reqs[i].method,
                authorization |-> reqs[i].authorization,
                code |-> res.code, err |-> res.err, ops |-> res.ops]
    /\ reqs' = [reqs EXCEPT ![i] = DoneRequest]

\* an authHandler without the return after sendStatus(w, r, 401, ...)
authHandlerNoReturn(i) ==
    /\ At(i, "authHandler")
    /\ IF ~isAuthorized(reqs[i].authorization, secretToken)
       THEN /\ responseErrors' = responseErrors + 1
            /\ last' = [handler |-> "authHandler", path |-> reqs[i].path,
                        method |-> reqs[i].method,
                        authorization |-> reqs[i].authorization,
                        code |-> 401, err |-> errInvalidToken, ops |-> <<>>]
            /\ reqs' = [reqs EXCEPT ![i].todo = Tail(@)]
            /\ UNCHANGED <<secretToken, requestCounter, responseValid>>
       ELSE /\ reqs' = [reqs EXCEPT ![i].todo = Tail(@)]
            /\ UNCHANGED <<secretToken, requestCounter, responseValid, responseErrors, last>>
    /\ UNCHANGED <<stopVars, probe>>

authHandler(i) ==
    /\ At(i, "authHandler")
    /\ IF ~isAuthorized(reqs[i].authorization, secretToken)
       THEN /\ Respond(i, "authHandler",
                       [code |-> 401, err |-> errInvalidToken, ops |-> <<>>])
            /\ UNCHANGED <<secretToken, requestCounter>>
       ELSE /\ reqs' = [reqs EXCEPT ![i].todo = Tail(@)]
            /\ UNCHANGED <<secretToken, requestCounter, responseValid, responseErrors, last>>
    /\ UNCHANGED <<stopVars, probe>>

\* an appHandler that turns a request away while another one is in flight
appHandlerOneAtATime(i) ==
    /\ At(i, "appHandler")
    /\ IF InFlight # {i}
       THEN Respond(i, "appHandler",
                    [code |-> 503, err |-> Err(<<"queue is full">>), ops |-> <<>>])
       ELSE \E res \in OutcomesOf[reqs[i].method] : Respond(i, "appHandler", res)
    /\ UNCHANGED <<secretToken, requestCounter>>
    /\ UNCHANGED <<stopVars, probe>>

appHandler(i) ==
    /\ At(i, "appHandler")
    /\ \E res \in OutcomesOf[reqs[i].method] : Respond(i, "appHandler", res)
    /\ UNCHANGED <<secretToken, requestCounter>>
    /\ UNCHANGED <<stopVars, probe>>

\* the /healthcheck handler: requestCounter.Inc() ...
healthcheck(i) ==
    /\ At(i, "healthcheck")
    /\ requestCounter' = requestCounter + 1
    /\ reqs' = [reqs EXCEPT ![i].todo = Tail(@)]
    /\ UNCHANGED <<secretToken, responseValid, responseErrors, last>>
    /\ UNCHANGED <<stopVars, probe>>

\* a /healthcheck handler that answers 200 without responseValid.Inc()
healthcheckRespondUncounted(i) ==
    /\ At(i, "healthcheckRespond")
    /\ last' = [handler |-> "healthcheck", path |-> reqs[i].path,
                method |-> reqs[i].method, authorization |-> reqs[i].authorization,
                code |-> 200, err |-> NilErr, ops |-> <<>>]
    /\ reqs' = [reqs EXCEPT ![i] = DoneRequest]
    /\ UNCHANGED <<secretToken, requestCounter, responseValid, responseErrors>>
    /\ UNCHANGED <<stopVars, probe>>

\* ... w.WriteHeader(200); responseValid.Inc()
healthcheckRespond(i) ==
    /\ At(i, "healthcheckRespond")
    /\ responseValid' = responseValid + 1
    /\ last' = [handler |-> "healthcheck", path |-> reqs[i].path,
                method |-> reqs[i].method, authorization |-> reqs[i].authorization,
                code |-> 200, err |-> NilErr, ops |-> <<>>]
    /\ reqs' = [reqs EXCEPT ![i] = DoneRequest]
    /\ UNCHANGED <<secretToken, requestCounter, responseErrors>>
    /\ UNCHANGED <<stopVars, probe>>

(***************************************************************************)
(* stop(server, timeout).                                                  *)
(***************************************************************************)
ErrDeadlineExceeded == Err(<<"context deadline exceeded">>)
ErrListenerClose == Err(<<"close tcp: use of closed network connection">>)

\* stop calls server.Shutdown(ctx): the listeners are closed at once
stopShutdown ==
    /\ stopPc = "idle"
    /\ server = "listening"
    /\ stopPc' = "Shutdown"
    /\ stopCalls' = Append(stopCalls, "Shutdown")
    /\ server' = "shuttingDown"
    /\ UNCHANGED <<shutdownErr, closeErr, logged>>
    /\ UNCHANGED <<reqVars, probe>>

\* what Shutdown may return now: while a request is in flight it waits, and
\* only the context's deadline ends the wait; once none is, it returns the
\* error of closing the listeners (or nil), unless the deadline came first
ShutdownResults ==
    IF InFlight = {} THEN {NilErr, ErrListenerClose, ErrDeadlineExceeded}
    ELSE {ErrDeadlineExceeded}

\* a stop that closes whatever Shutdown returned
stopClosesAlways(err) == TRUE

\* whether stop goes on to server.Close() after Shutdown returned err
stopCloses(err) == ~err.nil

\* a stop that does not log what Shutdown returned
stopAfterShutdownSilent ==
    /\ stopPc = "Shutdown"
    /\ \E err \in ShutdownResults :
          /\ shutdownErr' = err
          /\ stopPc' = IF stopCloses(err) THEN "Close" ELSE "returned"
    /\ UNCHANGED <<server, stopCalls, closeErr, logged>>
    /\ UNCHANGED <<reqVars, probe>>

\* Shutdown returns err; stop logs a non-nil err and goes on to Close
stopAfterShutdown ==
    /\ stopPc = "Shutdown"
    /\ \E err \in ShutdownResults :
          /\ shutdownErr' = err
          /\ logged' = IF err.nil THEN logged ELSE Append(logged, err.msg)
          /\ stopPc' = IF stopCloses(err) THEN "Close" ELSE "returned"
    /\ UNCHANGED <<server, stopCalls, closeErr>>
    /\ UNCHANGED <<reqVars, probe>>

\* err = server.Close(): every connection is cut; stop logs a non-nil err
\* and returns
stopClose ==
    /\ stopPc = "Close"
    /\ \E err \in {NilErr, ErrListenerClose} :
          /\ closeErr' = err
          /\ logged' = IF err.nil THEN logged ELSE Append(logged, err.msg)
    /\ stopCalls' = Append(stopCalls, "Close")
    /\ server' = "closed"
    /\ stopPc' = "returned"
    /\ UNCHANGED shutdownErr
    /\ UNCHANGED <<reqVars, probe>>

Next ==
    \/ \E i \in Requests : Serve(i)
    \/ \E i \in Requests : logHandler(i)
    \/ \E i \in Requests : authHandler(i)
    \/ \E i \in Requests : appHandler(i)
    \/ \E i \in Requests : healthcheck(i)
    \/ \E i \in Requests : healthcheckRespond(i)
    \/ stopShutdown
    \/ stopAfterShutdown
    \/ stopClose

Spec == Init /\ [][Next]_vars

\* Shutdown returns at the latest when the context's deadline expires, and
\* Close does not block: once called, stop keeps running
LiveSpec == Spec /\ WF_vars(stopAfterShutdown) /\ WF_vars(stopClose)

(***************************************************************************)
(* isAuthorized on its own: any configured secret, any header.             *)
(***************************************************************************)
TokenAlphabet == {"s", "t", SP}
Tokens == StringsUpTo(TokenAlphabet, MaxTokenLen)
Schemes == {<<>>, Bearer, Append(Bearer, SP), Append(Basic, SP),
            <<"b", "e", "a", "r", "e", "r", SP>>}
Headers == {scheme \o rest : scheme \in Schemes, rest \in Tokens}

AuthInit ==
    /\ secretToken \in Tokens
    /\ Fresh
    /\ probe \in [fn : {"isAuthorized"}, header : Headers, called : {FALSE},
                  result : {FALSE}]

callIsAuthorized ==
    /\ probe.fn = "isAuthorized"
    /\ ~probe.called
    /\ probe' = [probe EXCEPT !.called = TRUE,
                              !.result = isAuthorized(probe.header, secretToken)]
    /\ UNCHANGED <<reqVars, stopVars>>

AuthNext == callIsAuthorized

AuthSpec == AuthInit /\ [][AuthNext]_vars

(***************************************************************************)
(* appHandler on its own: one request with any method, headers and body,   *)
(* any answers of the Processor and the reporter.                          *)
(***************************************************************************)
NoResult == [code |-> 0, err |-> NilErr, calls |-> <<>>]
NoResponse == [status |-> 0, contentType |-> "", body |-> NoBody]

PipeInit ==
    /\ secretToken \in Secrets
    /\ Fresh
    /\ probe \in [fn : {"appHandler"}, in : PipelineInputs, accept : AcceptHeaders,
                  called : {FALSE}, out : {NoResult}, response : {NoResponse}]

callAppHandler ==
    /\ probe.fn = "appHandler"
    /\ ~probe.called
    /\ LET res == processRequest(probe.in.r, probe.in.p, MaxUnzippedSize, probe.in.report)
       IN /\ probe' = [probe EXCEPT !.called = TRUE, !.out = res,
                                    !.response = sendStatus(probe.accept, res.code, res.err)]
          /\ responseValid' = IF res.err.nil THEN responseValid + 1 ELSE responseValid
          /\ responseErrors' = IF res.err.nil THEN responseErrors ELSE responseErrors + 1
    /\ UNCHANGED <<secretToken, requestCounter, reqs, last, stopVars>>

PipeNext == callAppHandler

PipeSpec == PipeInit /\ [][PipeNext]_vars

(***************************************************************************)
(* run(server, config) on its own: any TLS settings, any secret token.     *)
(* config.SSL is its certificate and key paths and the answer isEnabled()  *)
(* gives for it; serve is the error the listener returns when it ends.     *)
(***************************************************************************)
CertPaths == {"", "cert.pem"}
KeyPaths == {"", "key.pem"}
SSLConfigs == [enabled : BOOLEAN, cert : CertPaths, key : KeyPaths]
ErrServerClosed == Err(<<"http: Server closed">>)
ErrAddrInUse == Err(<<"listen tcp: bind: address already in use">>)
ListenResults == {ErrServerClosed, ErrAddrInUse}

isEnabled(ssl) == ssl.enabled

\* a run that refuses to listen in clear text when a secret token is set
runRefusesClearTextSecret(ssl, secret, serve) ==
    LET info == <<Call("logp.Info", <<"Starting apm-server! Hit CTRL-C to stop it.">>,
                       <<>>, NilErr),
                  Call("logp.Info", <<"Listening on: %s">>, <<>>, NilErr)>>
    IN IF isEnabled(ssl)
       THEN [err |-> serve,
             calls |-> Append(info, Call("ListenAndServeTLS", <<ssl.cert, ssl.key>>,
                                         <<>>, serve))]
       ELSE IF secret # <<>>
       THEN [err |-> Err(<<"Secret token is set, but SSL is not enabled.">>),
             calls |-> info]
       ELSE [err |-> serve,
             calls |-> Append(info, Call("ListenAndServe", <<>>, <<>>, serve))]

\* run: the calls it makes, in order, and the error it returns
run(ssl, secret, serve) ==
    LET info == <<Call("logp.Info", <<"Starting apm-server! Hit CTRL-C to stop it.">>,
                       <<>>, NilErr),
                  Call("logp.Info", <<"Listening on: %s">>, <<>>, NilErr)>>
        warn == IF secret # <<>>
                THEN <<Call("logp.Warn", <<"Secret token is set, but SSL is not enabled.">>,
                            <<>>, NilErr)>>
                ELSE <<>>
    IN IF isEnabled(ssl)
       THEN [err |-> serve,
             calls |-> Append(info, Call("ListenAndServeTLS", <<ssl.cert, ssl.key>>,
                                         <<>>, serve))]
       ELSE [err |-> serve,
             calls |-> Append(info \o warn, Call("ListenAndServe", <<>>, <<>>, serve))]

RunInit ==
    /\ secretToken \in Tokens
    /\ requestCounter = 0
    /\ responseValid = 0
    /\ responseErrors = 0
    /\ reqs = [i \in Requests |-> NewRequest]
    /\ last = NoLast
    /\ server = "built"
    /\ stopPc = "idle"
    /\ stopCalls = <<>>
    /\ shutdownErr = NilErr
    /\ closeErr = NilErr
    /\ logged = <<>>
    /\ probe \in [fn : {"run"}, ssl : SSLConfigs, serve : ListenResults,
                  called : {FALSE}, out : {[err |-> NilErr, calls |-> <<>>]}]

\* run is called and returns, with the listener's error, once the listener
\* it started has ended
callRun ==
    /\ probe.fn = "run"
    /\ ~probe.called
    /\ server = "built"
    /\ probe' = [probe EXCEPT !.called = TRUE,
                              !.out = run(probe.ssl, secretToken, probe.serve)]
    /\ server' = "closed"
    /\ UNCHANGED <<stopPc, stopCalls, shutdownErr, closeErr, logged>>
    /\ UNCHANGED reqVars

RunNext == callRun

RunSpec == RunInit /\ [][RunNext]_vars


(***************************************************************************)
(* The claims.                                                             *)
(***************************************************************************)
Probed(fn) == probe.fn = fn /\ probe.called

\* the steps of processRequest in order: 1 method check, 2 decode,
\* 3 size-limited read, 4 Validate, 5 Transform, 6 report; whether a step
\* fails on given inputs, read off the inputs alone
StepFails(in, k) ==
    CASE k = 1 -> in.r.method # "POST"
      [] k = 2 -> \/ in.r.contentType # "application/json"
                  \/ ~in.r.hasBody
                  \/ (in.r.contentEncoding \in {"gzip", "deflate"} /\ in.r.headerErr)
      [] k = 3 -> /\ in.r.stream.failAt \in 0..Len(in.r.stream.body)
                  /\ in.r.stream.failAt < MaxUnzippedSize
      [] k = 4 -> ~in.p.validate.nil
      [] k = 5 -> ~in.p.transform.err.nil
      [] k = 6 -> ~in.report.nil

StepStatus == <<405, 400, 500, 400, 400, 503>>
StepOp == <<"", "decodeData", "ReadAll", "Validate", "Transform", "report">>

FirstFailing(in) ==
    IF \E k \in 1..6 : StepFails(in, k)
    THEN CHOOSE k \in 1..6 : StepFails(in, k) /\ \A j \in 1..(k - 1) : ~StepFails(in, j)
    ELSE 0

Invoked(calls, op) == \E k \in 1..Len(calls) : calls[k].op = op

\* C1: the (status, error) processRequest returns is fixed by the first
\* failing step in the order method check, decode, read, Validate,
\* Transform, report (405, 400, 500, 400, 400, 503); it is (202, nil)
\* exactly when no step fails; no step after the failing one is invoked.
C1_FirstFailureDecides ==
    Probed("appHandler") =>
        LET f == FirstFailing(probe.in)
            out == probe.out
        IN /\ out.code = IF f = 0 THEN 202 ELSE StepStatus[f]
           /\ out.err.nil <=> f = 0
           /\ out.code = 202 <=> f = 0
           /\ \A k \in 2..6 : (f # 0 /\ k > f) => ~Invoked(out.calls, StepOp[k])
           /\ \A k \in 2..6 : (f = 0 \/ k <= f) => Invoked(out.calls, StepOp[k])

C1_Witness ==
    /\ Probed("appHandler")
    /\ probe.in.r.method = "POST"
    /\ ~probe.in.p.validate.nil
    /\ ~probe.in.report.nil
    /\ probe.out.code = 400
    /\ Invoked(probe.out.calls, "Validate")
    /\ ~Invoked(probe.out.calls, "report")

\* C2: for a request whose decompressed body is longer than maxSize,
\* processRequest never calls Validate (it fails with a read/size error
\* before).
C2_OversizedNeverValidated ==
    (Probed("appHandler") /\ Len(probe.in.r.stream.body) > MaxUnzippedSize)
        => ~Invoked(probe.out.calls, "Validate")

\* C3: on a processor route with a secret configured, a request without an
\* Authorization header is answered 401 by authHandler with nothing of the
\* pipeline invoked, and it never reaches appHandler.
C3_NoHeaderStopsAtAuth ==
    /\ \A i \in Requests :
          (/\ Active(i)
           /\ reqs[i].path \in ProcessorPaths
           /\ secretToken # <<>>
           /\ reqs[i].authorization = <<>>)
              => Head(reqs[i].todo) \in {"logHandler", "authHandler"}
    /\ (/\ last.path \in ProcessorPaths
        /\ secretToken # <<>>
        /\ last.authorization = <<>>)
           => (last.handler = "authHandler" /\ last.code = 401 /\ last.ops = <<>>)

C3_Witness ==
    /\ last.handler = "authHandler"
    /\ last.path \in ProcessorPaths
    /\ secretToken # <<>>
    /\ last.authorization = <<>>
    /\ last.code = 401
    /\ responseErrors = 1
    /\ InFlight = {}

\* C4 as stated: a request with a method other than POST to a processor
\* path is always answered 405, whatever the secret and the Authorization
\* header.
C4_NonPostAlways405 ==
    (last.path \in ProcessorPaths /\ last.method # "POST") => last.code = 405

\* C4 (amended): a request with a method other than POST to a processor
\* path is answered 405 when it passes authentication and 401 when it does
\* not.
C4_NonPost405WhenAuthorized ==
    (last.path \in ProcessorPaths /\ last.method # "POST")
        => last.code = IF isAuthorized(last.authorization, secretToken) THEN 405 ELSE 401

C4_Witness ==
    /\ last.path \in ProcessorPaths
    /\ last.method = "GET"
    /\ secretToken # <<>>
    /\ last.authorization = Bearer \o <<SP>> \o secretToken
    /\ last.code = 405
    /\ last.ops = <<>>

\* C5: for every secret S, isAuthorized accepts the header "Bearer S".
C5_BearerSecretAccepted ==
    (Probed("isAuthorized") /\ probe.header = Bearer \o <<SP>> \o secretToken)
        => probe.result

NoSpace(s) == \A k \in 1..Len(s) : s[k] # SP

\* C6: isAuthorized accepts every header when the secret is empty; with a
\* non-empty secret S it rejects every header that is not exactly "Bearer",
\* one space, S, with no other space in it; the call changes no state.
C6_RejectsAllButBearerSecret ==
    Probed("isAuthorized") =>
        /\ secretToken = <<>> => probe.result
        /\ (/\ secretToken # <<>>
            /\ ~(probe.header = Bearer \o <<SP>> \o secretToken /\ NoSpace(secretToken)))
               => ~probe.result
        /\ Fresh

C6_Witness ==
    /\ Probed("isAuthorized")
    /\ secretToken = <<"s">>
    /\ probe.header = Bearer \o <<SP, "s", SP, "t">>
    /\ ~probe.result

\* C7: every outcome handed to sendStatus on a processor route has its
\* status in {202, 400, 401, 405, 500, 503} and a non-nil error iff the
\* status is not 202.
C7_OutcomeStatusAndError ==
    last.handler \in {"authHandler", "appHandler"} =>
        /\ last.code \in {202, 400, 401, 405, 500, 503}
        /\ ~last.err.nil <=> last.code # 202

C7_Witness ==
    /\ last.handler = "appHandler"
    /\ last.code = 503
    /\ ~last.err.nil
    /\ responseValid = 1

\* C8: every request served by the muxer increments the total-request
\* counter exactly once: the counter equals the number of requests that
\* have passed the counting step of their handler, and the number of
\* completed requests when none is in flight.
Counted(i) ==
    \/ reqs[i].st = "done"
    \/ (Active(i) /\ Head(reqs[i].todo) \notin {"logHandler", "healthcheck"})

C8_EveryRequestCountedOnce ==
    /\ requestCounter = Cardinality({i \in Requests : Counted(i)})
    /\ InFlight = {} => requestCounter = Cardinality({i \in Requests : reqs[i].st = "done"})

C8_Witness ==
    /\ InFlight = {}
    /\ requestCounter = 2
    /\ responseValid = 1
    /\ responseErrors = 1
    /\ last.code = 401

\* C9: a request to /healthcheck runs only the healthcheck handler (not
\* authHandler, appHandler or anything they call): its first step adds one
\* to the total-request counter, its second answers 200 and adds one to
\* the valid-response counter; the error counter never changes.
C9_HealthcheckBypassesAll ==
    [][\A i \in Requests :
          (Active(i) /\ reqs[i].path = HealthcheckPath /\ reqs'[i] # reqs[i]) =>
              \/ /\ Head(reqs[i].todo) = "healthcheck"
                 /\ requestCounter' = requestCounter + 1
                 /\ UNCHANGED <<responseValid, responseErrors, last>>
                 /\ At(i, "healthcheckRespond")'
              \/ /\ Head(reqs[i].todo) = "healthcheckRespond"
                 /\ responseValid' = responseValid + 1
                 /\ UNCHANGED <<requestCounter, responseErrors>>
                 /\ reqs'[i].st = "done"
                 /\ last'.handler = "healthcheck"
                 /\ last'.code = 200
                 /\ last'.err.nil
                 /\ last'.ops = <<>>]_vars

C9_Witness ==
    /\ last.handler = "healthcheck"
    /\ last.code = 200
    /\ last.method = "POST"
    /\ last.authorization = <<>>
    /\ secretToken # <<>>
    /\ requestCounter = 2
    /\ responseValid = 2
    /\ responseErrors = 0

\* C10: stop calls Shutdown first; it calls Close iff Shutdown returned an
\* error, and only after Shutdown returned; once called, stop returns.
C10_StopOrder ==
    /\ stopPc = "idle" => stopCalls = <<>>
    /\ stopPc = "Shutdown" => stopCalls = <<"Shutdown">>
    /\ stopPc = "Close" => (stopCalls = <<"Shutdown">> /\ ~shutdownErr.nil)
    /\ stopPc = "returned" =>
          stopCalls = IF shutdownErr.nil THEN <<"Shutdown">> ELSE <<"Shutdown", "Close">>

C10_ShutdownThenCloseOnError ==
    /\ []C10_StopOrder
    /\ (stopPc # "idle") ~> (stopPc = "returned")

C10_Witness ==
    /\ stopPc = "returned"
    /\ stopCalls = <<"Shutdown", "Close">>
    /\ shutdownErr = ErrDeadlineExceeded
    /\ InFlight # {}

\* stop has returned after Shutdown gave up on the context's deadline
StopTimedOut == stopPc = "returned" /\ shutdownErr = ErrDeadlineExceeded

\* C11 as stated: when the shutdown timeout expires on a request in flight,
\* stop has, by the time it returns, cut the connections and logged two
\* things: the timeout error and the outcome of the forced close, whether
\* that close failed or succeeded
C11_LogsTimeoutAndCloseOutcome ==
    (StopTimedOut /\ InFlight # {}) =>
        /\ server = "closed"
        /\ Len(logged) = 2
        /\ logged[1] = ErrDeadlineExceeded.msg

\* C11: when the shutdown timeout expires, stop has, by the time it returns,
\* called Close (every connection is cut) and logged the timeout error; the
\* forced close is logged only when it failed: its error follows the timeout
\* error in the log, and a forced close that succeeded logs nothing
C11_LogsTimeoutAndCloseFailure ==
    StopTimedOut =>
        /\ stopCalls = <<"Shutdown", "Close">>
        /\ server = "closed"
        /\ logged = IF closeErr.nil THEN <<ErrDeadlineExceeded.msg>>
                    ELSE <<ErrDeadlineExceeded.msg, closeErr.msg>>

\* stop has returned while a request was still in flight: the timeout expired
\* on it, the forced close succeeded, and only the timeout is in the log
C11_Witness ==
    /\ StopTimedOut
    /\ InFlight # {}
    /\ server = "closed"
    /\ closeErr.nil
    /\ logged = <<ErrDeadlineExceeded.msg>>

\* decodeData hands a reader to processRequest / fails to initialise the
\* gzip or zlib decompressor over the body, read off the request alone
DecodeSucceeds(r) ==
    /\ r.contentType = "application/json"
    /\ r.hasBody
    /\ (r.contentEncoding \in {"gzip", "deflate"} => ~r.headerErr)

DecompressorInitFails(r) ==
    /\ r.contentType = "application/json"
    /\ r.hasBody
    /\ r.contentEncoding \in {"gzip", "deflate"}
    /\ r.headerErr

Count(calls, op) == Cardinality({k \in 1..Len(calls) : calls[k].op = op})

\* C12 as stated: on every exit path of processRequest on which a stream was
\* opened on the body, a decode that fails while initialising the gzip or
\* zlib decompressor included, the pipeline closes the stream before it returns
C12_ClosedOnEveryExitPath ==
    (/\ Probed("appHandler")
     /\ probe.in.r.method = "POST"
     /\ (DecodeSucceeds(probe.in.r) \/ DecompressorInitFails(probe.in.r)))
    => /\ Invoked(probe.out.calls, "Close")
       /\ probe.out.calls[Len(probe.out.calls)].op = "Close"

\* C12: on every exit path of processRequest after a successful decode (read
\* failure, validation failure, transform failure, report failure, success)
\* the reader decodeData returned is closed exactly once, as the last thing
\* before processRequest returns; when decodeData fails, a failure to
\* initialise the gzip or zlib decompressor included, or the method is not
\* POST, no reader is returned and processRequest closes nothing
C12_ClosedAfterSuccessfulDecode ==
    Probed("appHandler") =>
        LET calls == probe.out.calls
        IN IF probe.in.r.method = "POST" /\ DecodeSucceeds(probe.in.r)
           THEN /\ Count(calls, "Close") = 1
                /\ calls[Len(calls)].op = "Close"
                /\ calls[1].op = "decodeData"
                /\ calls[1].out \in {<<"body">>, <<"gzip">>, <<"zlib">>}
                /\ calls[Len(calls)].arg = calls[1].out
           ELSE ~Invoked(calls, "Close")

\* a gzip body that decodes and is rejected by Validate: the early return
\* still closes the gzip reader
C12_Witness ==
    /\ Probed("appHandler")
    /\ probe.in.r.method = "POST"
    /\ probe.in.r.contentEncoding = "gzip"
    /\ DecodeSucceeds(probe.in.r)
    /\ probe.out.code = 400
    /\ Ops(probe.out.calls) = <<"decodeData", "ReadAll", "Validate", "Close">>
    /\ probe.out.calls[4].arg = <<"gzip">>

\* the Accept header mentions "*/*" or "application/json"
AcceptAsksJSON(accept) ==
    \E k \in 1..Len(accept) : accept[k] \in {"*/*", "application/json"}

\* reading a body as the JSON text of an object with the one member "error":
\* whether it is one, and the string the member holds
jsonUnescape(text) ==
    [k \in 1..Len(text) |->
        CASE text[k] = "\\\"" -> "\""
          [] text[k] = "\\\\" -> "\\"
          [] text[k] = "\\u003c" -> "<"
          [] text[k] = "\\u003e" -> ">"
          [] text[k] = "\\u0026" -> "&"
          [] OTHER -> text[k]]

ErrorObject(body) ==
    IF /\ Len(body) >= 6
       /\ SubSeq(body, 1, 4) = <<"{", "\"error\"", ":", "\"">>
       /\ SubSeq(body, Len(body) - 1, Len(body)) = <<"\"", "}">>
       /\ \A k \in 5..(Len(body) - 2) : body[k] \notin {"\"", "\\"}
    THEN [ok |-> TRUE, error |-> jsonUnescape(SubSeq(body, 5, Len(body) - 2))]
    ELSE [ok |-> FALSE, error |-> <<>>]

\* C13: sendStatus always writes the status code it is given; with a nil
\* error it adds one to the valid counter, leaves the error counter alone and
\* writes no body; with an error it adds one to the error counter, leaves the
\* valid counter alone and writes the error message, as the JSON object
\* {"error": message} if the Accept header contains "*/*" or
\* "application/json", as the raw plain text otherwise
C13_SendStatus ==
    Probed("appHandler") =>
        /\ probe.response.status = probe.out.code
        /\ probe.response.status # 0
        /\ IF probe.out.err.nil
           THEN /\ responseValid = 1
                /\ responseErrors = 0
                /\ probe.response.body = <<>>
           ELSE /\ responseValid = 0
                /\ responseErrors = 1
                /\ IF AcceptAsksJSON(probe.accept)
                   THEN /\ ErrorObject(probe.response.body).ok
                        /\ ErrorObject(probe.response.body).error = probe.out.err.msg
                        /\ probe.response.contentType = "application/json"
                   ELSE /\ probe.response.body = probe.out.err.msg
                        /\ probe.response.contentType = "text/plain; charset=utf-8"

\* an error answered to a client whose Accept header has "*/*" among other
\* types: the body is a JSON text, with the quotes of the message escaped
C13_Witness ==
    /\ Probed("appHandler")
    /\ probe.accept = <<"text/html", ",", "*/*">>
    /\ ~probe.out.err.nil
    /\ responseErrors = 1
    /\ probe.response.status = 400
    /\ probe.response.body # probe.out.err.msg
    /\ probe.response.body[1] = "{"
    /\ \E k \in 1..Len(probe.response.body) : probe.response.body[k] = "\\\""

\* the requests that have been answered
Completed == {i \in Requests : reqs[i].st = "done"}

\* C14: no counter increment is lost under concurrency: whenever no request
\* is in flight, after K requests have completed the total counter is K and
\* valid + errors is K, whatever the interleaving of their handlers; and no
\* step ever decreases a counter
C14_NoLostIncrements ==
    /\ [](InFlight = {} =>
            /\ requestCounter = Cardinality(Completed)
            /\ responseValid + responseErrors = Cardinality(Completed))
    /\ [][/\ requestCounter' >= requestCounter
          /\ responseValid' >= responseValid
          /\ responseErrors' >= responseErrors]_vars

\* all the requests are in their handlers at the same time, and every one of
\* them is in the total
C14_Witness ==
    /\ Cardinality(InFlight) = MaxRequests
    /\ requestCounter = MaxRequests

\* C15: when Validate rejects the payload the request fails with status 400
\* and the error is the Processor's validation error itself, its message
\* neither prefixed nor wrapped, unlike the errors of decode and read
\* failures, which carry a prefix; a client that accepts application/json
\* gets the body {"error": message} with the validation message
C15_ValidationErrorUnwrapped ==
    Probed("appHandler") =>
        /\ (Invoked(probe.out.calls, "Validate") /\ ~probe.in.p.validate.nil) =>
              /\ probe.out.code = 400
              /\ probe.response.status = 400
              /\ probe.out.err = probe.in.p.validate
              /\ IF AcceptAsksJSON(probe.accept)
                 THEN /\ ErrorObject(probe.response.body).ok
                      /\ ErrorObject(probe.response.body).error
                             = probe.in.p.validate.msg
                 ELSE probe.response.body = probe.in.p.validate.msg
        /\ FirstFailing(probe.in) = 2 =>
              /\ Len(probe.out.err.msg) > 1
              /\ probe.out.err.msg[1] = "Decoding error: "
        /\ FirstFailing(probe.in) = 3 =>
              /\ Len(probe.out.err.msg) > 1
              /\ probe.out.err.msg[1] = "Data read error: "

\* Validate rejected the payload of a client that accepts application/json
C15_Witness ==
    /\ Probed("appHandler")
    /\ probe.accept = <<"application/json">>
    /\ Ops(probe.out.calls) = <<"decodeData", "ReadAll", "Validate", "Close">>
    /\ ~probe.in.p.validate.nil
    /\ probe.response.status = 400
    /\ ErrorObject(probe.response.body).error = probe.in.p.validate.msg

\* the names of the calls the most recent handler made, and how many of
\* them were calls of op
LastOps == [k \in 1..Len(last.ops) |-> last.ops[k].op]
LastCount(op) == Cardinality({k \in 1..Len(last.ops) : last.ops[k].op = op})

\* C17: for each request the reporter is invoked at most once, and only after
\* the request was authorized, had method POST, was decoded and read, and
\* Validate and Transform succeeded, in that order; it is given exactly the
\* event list Transform returned; Validate and Transform are each invoked at
\* most once, Transform only after Validate succeeded
C17_ReportOnlyAfterAllSucceeded ==
    /\ \A op \in {"Validate", "Transform", "report"} : LastCount(op) <= 1
    /\ last.ops # <<>> =>
          /\ last.handler = "appHandler"
          /\ last.method = "POST"
          /\ isAuthorized(last.authorization, secretToken)
    /\ LastCount("Transform") = 1 =>
          /\ SubSeq(LastOps, 1, 4) = <<"decodeData", "ReadAll", "Validate", "Transform">>
          /\ \A k \in 1..3 : last.ops[k].err.nil
    /\ LastCount("report") = 1 =>
          /\ LastOps = <<"decodeData", "ReadAll", "Validate", "Transform", "report", "Close">>
          /\ \A k \in 1..4 : last.ops[k].err.nil
          /\ last.ops[5].events = last.ops[4].events

\* a request with the configured secret whose events reached the reporter
C17_Witness ==
    /\ secretToken = <<"s">>
    /\ last.handler = "appHandler"
    /\ last.authorization = Bearer \o <<SP, "s">>
    /\ last.code = 202
    /\ LastCount("report") = 1
    /\ last.ops[5].events = <<"event">>

\* the response fixed by a request's own path, method and Authorization
\* header, the configured secret, and the answers its own calls got: the
\* first call that returned an error decides, each kind of call in its way
FirstFailed(ops) ==
    IF \E k \in 1..Len(ops) : ~ops[k].err.nil
    THEN CHOOSE k \in 1..Len(ops) :
            ~ops[k].err.nil /\ \A j \in 1..(k - 1) : ops[j].err.nil
    ELSE 0

ResponseTo(path, method, authorization, secret, ops) ==
    LET f == FirstFailed(ops)
    IN IF path = HealthcheckPath THEN [code |-> 200, err |-> NilErr]
       ELSE IF secret # <<>> /\ authorization # Bearer \o <<SP>> \o secret
       THEN [code |-> 401, err |-> Err(<<"invalid token">>)]
       ELSE IF method # "POST"
       THEN [code |-> 405, err |-> Err(<<"only POST requests are supported">>)]
       ELSE IF f = 0 THEN [code |-> 202, err |-> NilErr]
       ELSE CASE ops[f].op = "decodeData" ->
                    [code |-> 400, err |-> Err(<<"Decoding error: ">> \o ops[f].err.msg)]
              [] ops[f].op = "ReadAll" ->
                    [code |-> 500, err |-> Err(<<"Data read error: ">> \o ops[f].err.msg)]
              [] ops[f].op = "report" -> [code |-> 503, err |-> ops[f].err]
              [] OTHER -> [code |-> 400, err |-> ops[f].err]

\* the calls a request's own path, method, header and answers lead to: none
\* unless it is an authorized POST to a processor; then the pipeline's calls
\* in order up to the first that fails, and Close if the decode succeeded
CallsFit(path, method, authorization, secret, ops) ==
    LET names == [k \in 1..Len(ops) |-> ops[k].op]
        order == <<"decodeData", "ReadAll", "Validate", "Transform", "report">>
        f == FirstFailed(ops)
    IN IF \/ path = HealthcheckPath
          \/ (secret # <<>> /\ authorization # Bearer \o <<SP>> \o secret)
          \/ method # "POST"
       THEN ops = <<>>
       ELSE IF f = 1 THEN names = <<"decodeData">>
       ELSE IF f = 0 THEN names = order \o <<"Close">>
       ELSE names = SubSeq(order, 1, f) \o <<"Close">>

\* C16: the response (status and error message) to a request is a function
\* of its own path, method and headers, the configuration, and the answers
\* the Processor, the reporter and its own body stream gave to it: in every
\* run, whatever other requests were handled before it or are in flight with
\* it and whatever became of them, the response is the value ResponseTo of
\* those alone, so two runs that differ in the other requests answer alike
C16_ResponseOfOwnRequestOnly ==
    last.handler # "none" =>
        /\ CallsFit(last.path, last.method, last.authorization, secretToken, last.ops)
        /\ [code |-> last.code, err |-> last.err]
              = ResponseTo(last.path, last.method, last.authorization, secretToken,
                           last.ops)

\* a request is rejected by Validate while another request, already counted,
\* is still in its handlers
C16_Witness ==
    /\ last.handler = "appHandler"
    /\ last.code = 400
    /\ Len(last.ops) = 4
    /\ last.ops[3].op = "Validate"
    /\ ~last.ops[3].err.nil
    /\ InFlight # {}
    /\ requestCounter = MaxRequests

\* the calls of run that start a listener
Listens(calls) ==
    {k \in 1..Len(calls) : calls[k].op \in {"ListenAndServeTLS", "ListenAndServe"}}

\* C18: run serves TLS with the configured certificate and key if and only
\* if TLS is enabled in the configuration, and serves plaintext otherwise; a
\* non-empty secret token with TLS disabled only produces a warning: run
\* still starts the plaintext listener, and returns nothing but what that
\* listener returns
C18_TLSIffEnabled ==
    Probed("run") =>
        LET calls == probe.out.calls
            n == Len(calls)
        IN /\ Listens(calls) = {n}
           /\ probe.out.err = calls[n].err
           /\ calls[n].err = probe.serve
           /\ probe.ssl.enabled <=> calls[n].op = "ListenAndServeTLS"
           /\ ~probe.ssl.enabled <=> calls[n].op = "ListenAndServe"
           /\ calls[n].op = "ListenAndServeTLS" =>
                  calls[n].arg = <<probe.ssl.cert, probe.ssl.key>>
           /\ (secretToken # <<>> /\ ~probe.ssl.enabled) =>
                  /\ Invoked(calls, "logp.Warn")
                  /\ calls[n].op = "ListenAndServe"

\* a secret token without TLS: run has warned and served plaintext
C18_Witness ==
    /\ Probed("run")
    /\ secretToken = <<"s">>
    /\ ~probe.ssl.enabled
    /\ Ops(probe.out.calls) = <<"logp.Info", "logp.Info", "logp.Warn", "ListenAndServe">>
    /\ probe.out.err = ErrServerClosed

\* the requests whose handler has added them to the total and has not
\* answered yet
CountedInFlight == {i \in InFlight : Counted(i)}

ArgsOf(calls, op) == {calls[k].arg : k \in {j \in 1..Len(calls) : calls[j].op = op}}

\* C20: whenever processRequest invokes Validate, the buffer it passes has at
\* most maxSize bytes and is a prefix of the decoded body, the whole decoded
\* body when that is no longer than maxSize; whenever it then invokes
\* Transform, it passes the identical buffer
C20_BufferIsCappedPrefix ==
    Probed("appHandler") =>
        LET calls == probe.out.calls
            body == probe.in.r.stream.body
        IN /\ \A buf \in ArgsOf(calls, "Validate") :
                  /\ Len(buf) <= MaxUnzippedSize
                  /\ Len(buf) <= Len(body)
                  /\ buf = SubSeq(body, 1, Len(buf))
                  /\ Len(body) <= MaxUnzippedSize => buf = body
           /\ Invoked(calls, "Transform") =>
                  /\ Invoked(calls, "Validate")
                  /\ ArgsOf(calls, "Transform") = ArgsOf(calls, "Validate")
                  /\ Cardinality(ArgsOf(calls, "Transform")) = 1

\* a body one byte longer than maxSize: Validate and Transform were both
\* given its first maxSize bytes
C20_Witness ==
    /\ Probed("appHandler")
    /\ Len(probe.in.r.stream.body) = MaxUnzippedSize + 1
    /\ Invoked(probe.out.calls, "Transform")
    /\ ArgsOf(probe.out.calls, "Validate")
          = {SubSeq(probe.in.r.stream.body, 1, MaxUnzippedSize)}
    /\ ArgsOf(probe.out.calls, "Transform")
          = {SubSeq(probe.in.r.stream.body, 1, MaxUnzippedSize)}

====
